---- MODULE Spec2Model ----
(***************************************************************************)
(* A model of tenpy.networks.mps.MPS: the per-site canonical-form          *)
(* bookkeeping, the rescaling of tensor legs by singular-value spectra,    *)
(* the boundary-aware index resolver and the n-site wavefunction builder.  *)
(*                                                                         *)
(* Exponents are counted in halves: the integer 2 stands for the float     *)
(* 1.0, 1 for 0.5.  A tensor is symbolic: it records which Gamma matrices  *)
(* it is built from and, for every open leg and every contracted bond,     *)
(* the bag of spectrum factors (spectrum value, exponent) multiplied into  *)
(* it.  Spectrum values are names; Rank and Invertible give what the code  *)
(* can observe or what the arithmetic depends on.                          *)
(***************************************************************************)
EXTENDS Integers, Sequences, FiniteSets, TLC

VARIABLES bc, sites, B, S, form, steps, ret

vars == <<bc, sites, B, S, form, steps, ret>>

\* ---------------------------------------------------------------- bounds

MaxL == 2
MaxN == 3
MaxSteps == 1

\* ------------------------------------------------------- class-level data

valid_bc == {"finite", "segment", "infinite"}

\* The parsed form None.
None == <<>>

\* A form argument: a key of _valid_forms or an explicit tuple of exponents.
Named(n) == [tag |-> "name", name |-> n, tup |-> None]

Tuple(t) == [tag |-> "tuple", name |-> "", tup |-> t]

FormNames == {"A", "C", "B", "G", "None"}

valid_forms(name) ==
    CASE name = "A" -> <<2, 0>>
      [] name = "C" -> <<1, 1>>
      [] name = "B" -> <<0, 2>>
      [] name = "G" -> <<0, 0>>
      [] name = "None" -> None

\* Explicit exponent pairs a caller passes: (1., 1.) and (0.5, 0.).
CustomForms == {<<2, 2>>, <<1, 0>>}

FormArgs == {Named(n) : n \in FormNames} \cup {Tuple(t) : t \in CustomForms}

\* ------------------------------------------------------- spectrum values

\* SVName[i+1] is the value the caller supplies for bond i at construction.
SVName == <<"sv0", "sv1", "sv2", "sv3", "sv4", "sv5">>

\* np.ones([1]); a fresh 1-D vector; a 1-D vector with a zero entry; a 2-D
\* npc.Array (as a DMRG mixer produces); an npc.Array of rank 3.
SetterValues == {"t", "z", "M"}

SpecValues == {"one", "T3"} \cup SetterValues \cup {SVName[k] : k \in 1..Len(SVName)}

\* isinstance(S, npc.Array): the 1-D values are numpy ndarrays.
IsNpcArray(s) == s \in {"M", "T3"}

Rank(s) == CASE s = "M" -> 2 [] s = "T3" -> 3 [] OTHER -> 1

\* Whether S ** (negative) is finite for a vector.
Invertible(s) == s # "z"

\* "half": the 1-D vector [0.5], of one entry that is not 1.
\* The length of a spectrum value along its first and its last axis: 1 for
\* np.ones([1]) and for [0.5], 2 for every other value here.
Dim(s) == IF s \in {"one", "half"} THEN 1 ELSE 2

\* The values a caller supplies where the outcome depends on dimension and
\* value: np.ones([1]), [0.5] and a vector of two entries.
SanityValues == {"one", "half", "t"}

\* ------------------------------------------------------------ weight bags

\* A bag of spectrum factors: a set of <<value, exponent>> with exponent # 0.
Exp(w, s) == IF \E p \in w : p[1] = s THEN (CHOOSE p \in w : p[1] = s)[2] ELSE 0

Support(w) == {p[1] : p \in w}

AddExp(w, s, d) ==
    {p \in w : p[1] # s} \cup (IF Exp(w, s) + d # 0 THEN {<<s, Exp(w, s) + d>>} ELSE {})

Merge(w1, w2) ==
    {<<s, Exp(w1, s) + Exp(w2, s)>> : s \in {x \in Support(w1) \cup Support(w2) : Exp(w1, x) + Exp(w2, x) # 0}}

\* -------------------------------------------------------------- tensors

\* id: the identity of the data buffer (0: not a tensor); G: the Gamma
\* matrices, left to right; legs: label -> bag; inner: the bags of the
\* contracted bonds; lossy: some entry was divided by an exact zero; chi: the
\* dimensions (ind_len) of the left and of the right virtual leg.
NoTensor ==
    [id |-> 0, G |-> <<>>, legs |-> [l \in {} |-> {}], inner |-> <<>>, lossy |-> FALSE,
     chi |-> <<0, 0>>]

Labels(T) == DOMAIN T.legs

\* A tensor of legs vL, vR, p built from Gamma g carrying S_L^a and S_R^b.
SiteTensor(id, g, sl, a, sr, b) ==
    [id |-> id, G |-> <<g>>,
     legs |-> [l \in {"vL", "vR", "p"} |->
                 CASE l = "vL" -> AddExp({}, sl, a)
                   [] l = "vR" -> AddExp({}, sr, b)
                   [] OTHER -> {}],
     inner |-> <<>>, lossy |-> FALSE, chi |-> <<Dim(sl), Dim(sr)>>]

\* The identity of a data buffer newly made from the buffer `id`: the
\* constructor's buffers are 1..L, a derived one lies IdStride further.
IdStride == MaxL + 2

NewBuf(id) == id + IdStride

\* npc.Array.copy.
Copy(T) == [T EXCEPT !.id = NewBuf(T.id)]

\* npc.Array.replace_label: the same data under a renamed leg.
replace_label(T, old, new) ==
    [T EXCEPT !.legs = [l \in (Labels(T) \ {old}) \cup {new} |->
                           IF l = new THEN T.legs[old] ELSE T.legs[l]]]

\* npc.Array.conj: every leg label gets a star.
Star(l) == CASE l = "vL" -> "vL*" [] l = "vR" -> "vR*" [] l = "p" -> "p*" [] OTHER -> l

Conj(T) ==
    [T EXCEPT !.id = NewBuf(T.id),
              !.legs = [l \in {Star(k) : k \in Labels(T)} |->
                           T.legs[CHOOSE k \in Labels(T) : Star(k) = l]]]

PLabel(k) == <<"p0", "p1", "p2", "p3", "p4", "p5">>[k + 1]

\* npc.tensordot(theta, X, axes=('vR', 'vL')).
tensordot(theta, X) ==
    [id |-> NewBuf(theta.id),
     G |-> theta.G \o X.G,
     legs |-> [l \in (Labels(theta) \ {"vR"}) \cup (Labels(X) \ {"vL"}) |->
                 IF l \in Labels(X) \ {"vL"} THEN X.legs[l] ELSE theta.legs[l]],
     inner |-> theta.inner \o <<Merge(theta.legs["vR"], X.legs["vL"])>> \o X.inner,
     lossy |-> theta.lossy \/ X.lossy,
     chi |-> <<theta.chi[1], X.chi[2]>>]

\* ---------------------------------------------------- results of a call

Ok(T) == [err |-> "", val |-> T]

Raise(e) == [err |-> e, val |-> NoTensor]

\* ------------------------------------------------------------ properties

L == Len(sites)

finite == bc # "infinite"

\* The bond indices of slice nontrivial_bonds.
nontrivial_bonds ==
    CASE bc = "finite" -> 1..(L - 1)
      [] bc = "segment" -> 0..L
      [] bc = "infinite" -> 0..(L - 1)

\* ------------------------------------------------------- index and forms

\* -1 stands for the ValueError of an out-of-bounds index.
OutOfBounds == -1

\* _to_valid_index without the shift of a negative index by L.
to_valid_index_no_shift(i) ==
    IF ~finite THEN i % L
    ELSE IF i >= L \/ i < 0 THEN OutOfBounds ELSE i

to_valid_index(i) ==
    IF ~finite THEN i % L
    ELSE LET j == IF i < 0 THEN i + L ELSE i
         IN IF j >= L \/ j < 0 THEN OutOfBounds ELSE j

to_valid_form(f) == IF f.tag = "tuple" THEN f.tup ELSE valid_forms(f.name)

\* `fs` is a sequence of form arguments: of length 1 for a single choice (a
\* tuple, a key, or a list of one), else one entry per site.
parse_form_raises(fs, len) == Len(fs) # 1 /\ Len(fs) # len

parse_form(fs, len) ==
    IF Len(fs) = 1 THEN [k \in 1..len |-> to_valid_form(fs[1])]
    ELSE [k \in 1..len |-> to_valid_form(fs[k])]

\* -------------------------------------------------------- spectra access

\* self._S[ib], bonds counted from 0.
SAt(ib) == S[ib + 1]

get_SL_(i) == SAt(to_valid_index(i))

get_SR_(i) == SAt(to_valid_index(i) + 1)

\* ------------------------------------------------------------- rescaling

\* A new tensor with the factor key^d multiplied into leg `axis`.
Scaled(T, key, d, axis, s) ==
    [T EXCEPT !.id = NewBuf(T.id),
              !.legs[axis] = AddExp(T.legs[axis], key, d),
              !.lossy = T.lossy \/ (d < 0 /\ ~Invertible(s))]

\* The matrix s entering a product from the side it does not belong to.
Transposed(s) == IF s = "M" THEN "MT" ELSE s

IsLeftLeg(axis) == axis \in {"vL", "vL*"}

IsRightLeg(axis) == axis \in {"vR", "vR*"}

\* npc.tensordot(S, B, axes=[1, axis_B]).replace_label(0, axis_B): S . B.
\* d = -2 stands for S replaced by npc.pinv(S, cutoff).
TensordotSB(T, s, d, axis_B) ==
    IF axis_B \notin Labels(T) THEN Raise("KeyError")
    ELSE Ok(Scaled(T, IF IsLeftLeg(axis_B) THEN s ELSE Transposed(s), d, axis_B, s))

\* npc.tensordot(B, S, axes=[axis_B, 0]).replace_label(-1, axis_B): B . S.
TensordotBS(T, s, d, axis_B) ==
    IF axis_B \notin Labels(T) THEN Raise("KeyError")
    ELSE Ok(Scaled(T, IF IsRightLeg(axis_B) THEN s ELSE Transposed(s), d, axis_B, s))

\* scale_axis with S ** abs(form_diff): the sign of the exponent is lost.
ScaleAxis_abs(T, s, d, axis_B) ==
    IF axis_B \notin Labels(T) THEN Raise("KeyError")
    ELSE Ok(Scaled(T, s, IF d < 0 THEN 0 - d ELSE d, axis_B, s))

\* B.scale_axis(S ** form_diff, axis_B) for a 1-D S.
ScaleAxis(T, s, d, axis_B) ==
    IF axis_B \notin Labels(T) THEN Raise("KeyError")
    ELSE Ok(Scaled(T, s, d, axis_B, s))

\* _scale_axis_B that tests form_diff == 0 only on the 1-D path.
scale_axis_B_zero_for_vectors(T, s, form_diff, axis_B) ==
    IF IsNpcArray(s) THEN
        IF Rank(s) # 2 THEN Raise("ValueError")
        ELSE IF form_diff # -2 /\ form_diff # 2 THEN Raise("ValueError")
        ELSE IF axis_B = "vL" \/ axis_B = "vL*" THEN TensordotSB(T, s, form_diff, axis_B)
        ELSE IF axis_B = "vR" \/ axis_B = "vR*" THEN TensordotBS(T, s, form_diff, axis_B)
        ELSE Raise("ValueError")
    ELSE IF form_diff = 0 THEN Ok(T)
    ELSE ScaleAxis(T, s, form_diff, axis_B)

\* _scale_axis_B without the test that a 2-D S gets an exponent of +-1.
scale_axis_B_any_exponent(T, s, form_diff, axis_B) ==
    IF form_diff = 0 THEN Ok(T)
    ELSE IF IsNpcArray(s) THEN
        IF Rank(s) # 2 THEN Raise("ValueError")
        ELSE IF axis_B = "vL" \/ axis_B = "vL*" THEN TensordotSB(T, s, form_diff, axis_B)
        ELSE IF axis_B = "vR" \/ axis_B = "vR*" THEN TensordotBS(T, s, form_diff, axis_B)
        ELSE Raise("ValueError")
    ELSE ScaleAxis(T, s, form_diff, axis_B)

scale_axis_B(T, s, form_diff, axis_B) ==
    IF form_diff = 0 THEN Ok(T)
    ELSE IF IsNpcArray(s) THEN
        IF Rank(s) # 2 THEN Raise("ValueError")
        ELSE IF form_diff # -2 /\ form_diff # 2 THEN Raise("ValueError")
        ELSE IF axis_B = "vL" \/ axis_B = "vL*" THEN TensordotSB(T, s, form_diff, axis_B)
        ELSE IF axis_B = "vR" \/ axis_B = "vR*" THEN TensordotBS(T, s, form_diff, axis_B)
        ELSE Raise("ValueError")
    ELSE ScaleAxis(T, s, form_diff, axis_B)

\* _convert_form_i that scales the right leg with the left spectrum too.
convert_form_i_left_twice(T, i, f, new_form, copy) ==
    IF new_form = None \/ f = new_form THEN
        IF copy THEN Ok(Copy(T)) ELSE Ok(T)
    ELSE IF f = None THEN Raise("ValueError")
    ELSE LET r1 == scale_axis_B(T, get_SL_(i), new_form[1] - f[1], "vL")
         IN IF r1.err # "" THEN r1
            ELSE scale_axis_B(r1.val, get_SL_(i), new_form[2] - f[2], "vR")

\* _convert_form_i that hands back B instead of raising for form None.
convert_form_i_no_raise(T, i, f, new_form, copy) ==
    IF new_form = None \/ f = new_form THEN
        IF copy THEN Ok(Copy(T)) ELSE Ok(T)
    ELSE IF f = None THEN Ok(T)
    ELSE LET r1 == scale_axis_B(T, get_SL_(i), new_form[1] - f[1], "vL")
         IN IF r1.err # "" THEN r1
            ELSE scale_axis_B(r1.val, get_SR_(i), new_form[2] - f[2], "vR")

convert_form_i(T, i, f, new_form, copy) ==
    IF new_form = None \/ f = new_form THEN
        IF copy THEN Ok(Copy(T)) ELSE Ok(T)
    ELSE IF f = None THEN Raise("ValueError")
    ELSE LET r1 == scale_axis_B(T, get_SL_(i), new_form[1] - f[1], "vL")
         IN IF r1.err # "" THEN r1
            ELSE scale_axis_B(r1.val, get_SR_(i), new_form[2] - f[2], "vR")

\* ------------------------------------------------------------- the calls

\* The call that has just returned to the caller: its name, arguments,
\* resolved index and outcome.  NoCall: the caller holds no result.
NoCall ==
    [op |-> "", i |-> 0, idx |-> 0, f |-> None, copy |-> FALSE, n |-> 0,
     fL |-> 0, fR |-> 0, axis |-> "", arg |-> NoTensor, sv |-> "",
     forms |-> <<>>, err |-> "", val |-> NoTensor, msg |-> "", Bs |-> <<>>, SVs |-> <<>>,
     p_state |-> <<>>, bc |-> ""]

\* Site indices a caller passes: below -L, negative, valid and beyond L.
Indices == (0 - MaxL - 1)..(MaxL + 1)

\* get_B as a function of the state.
get_B_(i, f, copy) ==
    LET idx == to_valid_index(i)
    IN IF idx = OutOfBounds THEN Raise("ValueError")
       ELSE convert_form_i(B[idx + 1], idx, form[idx + 1], to_valid_form(f), copy)

get_B(i, f, copy) ==
    /\ ret = NoCall
    /\ LET r == get_B_(i, f, copy)
       IN ret' = [NoCall EXCEPT !.op = "get_B", !.i = i, !.idx = to_valid_index(i),
                                !.f = to_valid_form(f), !.copy = copy,
                                !.err = r.err, !.val = r.val]
    /\ UNCHANGED <<bc, sites, B, S, form, steps>>

get_SL(i) ==
    /\ ret = NoCall
    /\ ret' = [NoCall EXCEPT !.op = "get_SL", !.i = i, !.idx = to_valid_index(i),
                             !.err = IF to_valid_index(i) = OutOfBounds THEN "ValueError" ELSE "",
                             !.sv = IF to_valid_index(i) = OutOfBounds THEN "" ELSE get_SL_(i)]
    /\ UNCHANGED <<bc, sites, B, S, form, steps>>

get_SR(i) ==
    /\ ret = NoCall
    /\ ret' = [NoCall EXCEPT !.op = "get_SR", !.i = i, !.idx = to_valid_index(i),
                             !.err = IF to_valid_index(i) = OutOfBounds THEN "ValueError" ELSE "",
                             !.sv = IF to_valid_index(i) = OutOfBounds THEN "" ELSE get_SR_(i)]
    /\ UNCHANGED <<bc, sites, B, S, form, steps>>

set_B(i, T, f) ==
    /\ ret = NoCall
    /\ steps < MaxSteps
    /\ LET idx == to_valid_index(i)
       IN /\ ret' = [NoCall EXCEPT !.op = "set_B", !.i = i, !.idx = idx,
                                   !.f = to_valid_form(f), !.arg = T,
                                   !.err = IF idx = OutOfBounds THEN "ValueError" ELSE ""]
          /\ IF idx = OutOfBounds THEN UNCHANGED <<B, form>>
             ELSE /\ form' = [form EXCEPT ![idx + 1] = to_valid_form(f)]
                  /\ B' = [B EXCEPT ![idx + 1] = T]
    /\ steps' = steps + 1
    /\ UNCHANGED <<bc, sites, S>>

\* set_SL without the write to _S[L] of an infinite MPS.
set_SL_no_mirror(i, s) ==
    /\ ret = NoCall
    /\ steps < MaxSteps
    /\ LET idx == to_valid_index(i)
       IN /\ ret' = [NoCall EXCEPT !.op = "set_SL", !.i = i, !.idx = idx, !.sv = s,
                                   !.err = IF idx = OutOfBounds THEN "ValueError" ELSE ""]
          /\ IF idx = OutOfBounds THEN UNCHANGED S
             ELSE S' = [S EXCEPT ![idx + 1] = s]
    /\ steps' = steps + 1
    /\ UNCHANGED <<bc, sites, B, form>>

set_SL(i, s) ==
    /\ ret = NoCall
    /\ steps < MaxSteps
    /\ LET idx == to_valid_index(i)
       IN /\ ret' = [NoCall EXCEPT !.op = "set_SL", !.i = i, !.idx = idx, !.sv = s,
                                   !.err = IF idx = OutOfBounds THEN "ValueError" ELSE ""]
          /\ IF idx = OutOfBounds THEN UNCHANGED S
             ELSE S' = [b \in 1..(L + 1) |->
                          IF b = idx + 1 THEN s
                          ELSE IF ~finite /\ idx = 0 /\ b = L + 1 THEN s
                          ELSE S[b]]
    /\ steps' = steps + 1
    /\ UNCHANGED <<bc, sites, B, form>>

set_SR(i, s) ==
    /\ ret = NoCall
    /\ steps < MaxSteps
    /\ LET idx == to_valid_index(i)
       IN /\ ret' = [NoCall EXCEPT !.op = "set_SR", !.i = i, !.idx = idx, !.sv = s,
                                   !.err = IF idx = OutOfBounds THEN "ValueError" ELSE ""]
          /\ IF idx = OutOfBounds THEN UNCHANGED S
             ELSE S' = [b \in 1..(L + 1) |->
                          IF ~finite /\ idx = L - 1 /\ b = 1 THEN s
                          ELSE IF b = idx + 2 THEN s
                          ELSE S[b]]
    /\ steps' = steps + 1
    /\ UNCHANGED <<bc, sites, B, form>>

\* The loop of test_sanity over the sites k-1 = 0 .. L-1: the message of the
\* first ValueError, "" when every site passes.
RECURSIVE sanity_loop(_)
sanity_loop(k) ==
    IF k > Len(B) THEN ""
    ELSE IF ~({"vL", "vR", "p"} \subseteq Labels(B[k])) THEN "B has wrong labels"
    ELSE IF Dim(S[k]) # B[k].chi[1] \/ Dim(S[k + 1]) # B[k].chi[2]
         THEN "shape of B incompatible with len of singular values"
    ELSE IF (~finite \/ k < L) /\ B[k].chi[2] # B[(k % L) + 1].chi[1]
         THEN "legs are not contractible"
    ELSE sanity_loop(k + 1)

\* test_sanity as a function of the state: the message of the ValueError it
\* raises, "" when it returns.
test_sanity_ ==
    IF bc \notin valid_bc THEN "invalid boundary condition"
    ELSE IF Len(B) # L THEN "wrong len of self._B"
    ELSE IF Len(S) # L + 1 THEN "wrong len of self._S"
    ELSE IF sanity_loop(1) # "" THEN sanity_loop(1)
    ELSE IF bc = "finite" /\ (Dim(S[1]) # 1 \/ Dim(S[L + 1]) # 1)
         THEN "non-trivial outer bonds for finite MPS"
    ELSE IF bc = "infinite" /\ S[L + 1] # S[1] THEN "iMPS with S[0] != S[L]"
    ELSE ""

test_sanity ==
    /\ ret = NoCall
    /\ ret' = [NoCall EXCEPT !.op = "test_sanity",
                             !.err = IF test_sanity_ = "" THEN "" ELSE "ValueError",
                             !.msg = test_sanity_]
    /\ UNCHANGED <<bc, sites, B, S, form, steps>>

\* The loop of get_theta over k = 1 .. n-1: `theta` is the accumulator, fR
\* the running right exponent (NoExp stands for Python's None).
NoExp == 0 - 99

\* The loop of get_theta scaling vL of site j to exponent 1 whatever the
\* previous site left on the bond.
RECURSIVE theta_loop_without_fR(_, _, _, _, _)
theta_loop_without_fR(theta, fR, k, i, n) ==
    IF k >= n THEN [err |-> "", val |-> theta, fR |-> fR]
    ELSE LET j == (i + k) % L
             Bj == replace_label(get_B_(j, Named("None"), FALSE).val, "p", PLabel(k))
         IN IF form[j + 1] # None
            THEN LET r == IF fR # NoExp
                          THEN scale_axis_B(Bj, get_SL_(j), 2 - form[j + 1][1], "vL")
                          ELSE Ok(Bj)
                 IN IF r.err # "" THEN [err |-> r.err, val |-> NoTensor, fR |-> fR]
                    ELSE theta_loop_without_fR(tensordot(theta, r.val), form[j + 1][2], k + 1, i, n)
            ELSE theta_loop_without_fR(tensordot(theta, Bj), NoExp, k + 1, i, n)

RECURSIVE theta_loop(_, _, _, _, _)
theta_loop(theta, fR, k, i, n) ==
    IF k >= n THEN [err |-> "", val |-> theta, fR |-> fR]
    ELSE LET j == (i + k) % L
             Bj == replace_label(get_B_(j, Named("None"), FALSE).val, "p", PLabel(k))
         IN IF form[j + 1] # None
            THEN LET r == IF fR # NoExp
                          THEN scale_axis_B(Bj, get_SL_(j), 2 - form[j + 1][1] - fR, "vL")
                          ELSE Ok(Bj)
                 IN IF r.err # "" THEN [err |-> r.err, val |-> NoTensor, fR |-> fR]
                    ELSE theta_loop(tensordot(theta, r.val), form[j + 1][2], k + 1, i, n)
            ELSE theta_loop(tensordot(theta, Bj), NoExp, k + 1, i, n)

\* get_theta that tests the form of the first site of the window only.
get_theta_first_site_only(i0, n, formL, formR) ==
    LET i == to_valid_index(i0)
    IN IF i = OutOfBounds THEN Raise("ValueError")
       ELSE IF finite /\ (i < 0 \/ i + n > L) THEN Raise("ValueError")
       ELSE IF form[i + 1] = None THEN Raise("ValueError")
       ELSE LET fL == form[i + 1][1]
                fR == form[i + 1][2]
                copy == (fL = 0 /\ fR = 0)
                t0 == replace_label(get_B_(i, Named("None"), copy).val, "p", "p0")
                t1 == scale_axis_B(t0, get_SL_(i), formL - fL, "vL")
            IN IF t1.err # "" THEN t1
               ELSE LET lp == theta_loop(t1.val, fR, 1, i, n)
                    IN IF lp.err # "" THEN Raise(lp.err)
                       ELSE IF lp.fR = NoExp THEN Raise("TypeError")
                       ELSE scale_axis_B(lp.val, get_SR_(i + n - 1), formR - lp.fR, "vR")

\* get_theta that scales vR by formR whatever the exponent already there.
get_theta_formR_on_top(i0, n, formL, formR) ==
    LET i == to_valid_index(i0)
    IN IF i = OutOfBounds THEN Raise("ValueError")
       ELSE IF finite /\ (i < 0 \/ i + n > L) THEN Raise("ValueError")
       ELSE IF form[i + 1] = None \/ form[((i + n - 1) % L) + 1] = None THEN Raise("ValueError")
       ELSE LET fL == form[i + 1][1]
                fR == form[i + 1][2]
                copy == (fL = 0 /\ fR = 0)
                t0 == replace_label(get_B_(i, Named("None"), copy).val, "p", "p0")
                t1 == scale_axis_B(t0, get_SL_(i), formL - fL, "vL")
            IN IF t1.err # "" THEN t1
               ELSE LET lp == theta_loop(t1.val, fR, 1, i, n)
                    IN IF lp.err # "" THEN Raise(lp.err)
                       ELSE IF lp.fR = NoExp THEN Raise("TypeError")
                       ELSE scale_axis_B(lp.val, get_SR_(i + n - 1), formR, "vR")

get_theta_(i0, n, formL, formR) ==
    LET i == to_valid_index(i0)
    IN IF i = OutOfBounds THEN Raise("ValueError")
       ELSE IF finite /\ (i < 0 \/ i + n > L) THEN Raise("ValueError")
       ELSE IF form[i + 1] = None \/ form[((i + n - 1) % L) + 1] = None THEN Raise("ValueError")
       ELSE LET fL == form[i + 1][1]
                fR == form[i + 1][2]
                copy == (fL = 0 /\ fR = 0)
                t0 == replace_label(get_B_(i, Named("None"), copy).val, "p", "p0")
                t1 == scale_axis_B(t0, get_SL_(i), formL - fL, "vL")
            IN IF t1.err # "" THEN t1
               ELSE LET lp == theta_loop(t1.val, fR, 1, i, n)
                    IN IF lp.err # "" THEN Raise(lp.err)
                       ELSE IF lp.fR = NoExp THEN Raise("TypeError")
                       ELSE scale_axis_B(lp.val, get_SR_(i + n - 1), formR - lp.fR, "vR")

get_theta(i, n, formL, formR) ==
    /\ ret = NoCall
    /\ LET r == get_theta_(i, n, formL, formR)
       IN ret' = [NoCall EXCEPT !.op = "get_theta", !.i = i, !.idx = to_valid_index(i),
                                !.n = n, !.fL = formL, !.fR = formR,
                                !.err = r.err, !.val = r.val]
    /\ UNCHANGED <<bc, sites, B, S, form, steps>>

\* The loop of convert_form calling set_B without `form`: the tag 'B'.
RECURSIVE convert_loop_default_tag(_, _, _, _)
convert_loop_default_tag(k, new_forms, Bs, forms) ==
    IF k > L THEN [err |-> "", B |-> Bs, form |-> forms]
    ELSE LET new_B == convert_form_i(Bs[k], k - 1, forms[k], new_forms[k], FALSE)
         IN IF new_B.err # "" THEN [err |-> new_B.err, B |-> Bs, form |-> forms]
            ELSE convert_loop_default_tag(k + 1, new_forms,
                              [Bs EXCEPT ![k] = new_B.val],
                              [forms EXCEPT ![k] = valid_forms("B")])

\* The loop of convert_form storing nothing unless every site converts.
RECURSIVE convert_loop_all_or_nothing(_, _, _, _)
convert_loop_all_or_nothing(k, new_forms, Bs, forms) ==
    IF k > L THEN [err |-> "", B |-> Bs, form |-> forms]
    ELSE LET new_B == convert_form_i(Bs[k], k - 1, forms[k], new_forms[k], FALSE)
         IN IF new_B.err # "" THEN [err |-> new_B.err, B |-> B, form |-> form]
            ELSE convert_loop_all_or_nothing(k + 1, new_forms,
                              [Bs EXCEPT ![k] = new_B.val],
                              [forms EXCEPT ![k] = new_forms[k]])

\* The loop of convert_form over the sites k-1 = 0 .. L-1: get_B, then set_B.
RECURSIVE convert_loop(_, _, _, _)
convert_loop(k, new_forms, Bs, forms) ==
    IF k > L THEN [err |-> "", B |-> Bs, form |-> forms]
    ELSE LET new_B == convert_form_i(Bs[k], k - 1, forms[k], new_forms[k], FALSE)
         IN IF new_B.err # "" THEN [err |-> new_B.err, B |-> Bs, form |-> forms]
            ELSE convert_loop(k + 1, new_forms,
                              [Bs EXCEPT ![k] = new_B.val],
                              [forms EXCEPT ![k] = new_forms[k]])

convert_form(fs) ==
    /\ ret = NoCall
    /\ steps < MaxSteps
    /\ IF parse_form_raises(fs, L)
       THEN /\ ret' = [NoCall EXCEPT !.op = "convert_form", !.n = Len(fs),
                                     !.err = "ValueError"]
            /\ UNCHANGED <<B, form>>
       ELSE LET r == convert_loop(1, parse_form(fs, L), B, form)
            IN /\ ret' = [NoCall EXCEPT !.op = "convert_form", !.n = Len(fs),
                                        !.forms = parse_form(fs, L), !.err = r.err]
               /\ B' = r.B
               /\ form' = r.form
    /\ steps' = steps + 1
    /\ UNCHANGED <<bc, sites, S>>

\* _convert_form_i applied to site i's tensor from its form to new_form and
\* then to the result from new_form back to the site's form.
convert_there_and_back(i, nf) ==
    /\ ret = NoCall
    /\ LET there == convert_form_i(B[i + 1], i, form[i + 1], to_valid_form(nf), FALSE)
           back == IF there.err # "" THEN there
                   ELSE convert_form_i(there.val, i, to_valid_form(nf), form[i + 1], FALSE)
       IN ret' = [NoCall EXCEPT !.op = "_convert_form_i", !.i = i, !.idx = i,
                                !.f = to_valid_form(nf), !.arg = there.val,
                                !.err = back.err, !.val = back.val]
    /\ UNCHANGED <<bc, sites, B, S, form, steps>>

\* _scale_axis_B called on its own (as mpo.MPOEnvironment does, with 'vL*').
AxisNames == {"vL", "vR", "vL*", "vR*", "p"}

FormDiffs == {0 - 2, 0 - 1, 0, 1, 2, 4}

call_scale_axis_B(T, s, form_diff, axis_B) ==
    /\ ret = NoCall
    /\ LET r == scale_axis_B(T, s, form_diff, axis_B)
       IN ret' = [NoCall EXCEPT !.op = "_scale_axis_B", !.arg = T, !.sv = s,
                                !.fL = form_diff, !.axis = axis_B,
                                !.err = r.err, !.val = r.val]
    /\ UNCHANGED <<bc, sites, B, S, form, steps>>

\* The tensors a caller stores with set_B at site idx: the site's tensor as
\* get_B gives it in form f.
SetBForms == {Named("B"), Named("A"), Named("None")}

CallerTensors(idx) ==
    IF idx = OutOfBounds THEN {B[1]}
    ELSE {get_B_(idx, f, FALSE).val : f \in {g \in SetBForms : get_B_(idx, g, FALSE).err = ""}}

\* ------------------------------------------------------------ construction

\* The `form` argument of the constructor and of convert_form: one choice
\* for all sites, or a list with one entry per site.
FormLists(len) == [1..len -> {Named("A"), Named("B"), Named("None")}]

FormInputs(len) == {<<f>> : f \in FormArgs} \cup FormLists(len) \cup FormLists(len + 1)

\* __init__(sites, Bs, SVs, bc, form) on a caller's tensors that carry the
\* declared form of the supplied spectra; SVs[i] is the value SVName[i+1].
InitS(b, len) ==
    [k \in 1..(len + 1) |->
        IF b = "finite" /\ (k = 1 \/ k = len + 1) THEN "one"
        ELSE IF b = "infinite" /\ k = len + 1 THEN SVName[1]
        ELSE SVName[k]]

InitB(b, len, fm) ==
    [k \in 1..len |->
        IF fm[k] = None THEN SiteTensor(k, k, InitS(b, len)[k], 0, InitS(b, len)[k + 1], 0)
        ELSE SiteTensor(k, k, InitS(b, len)[k], fm[k][1], InitS(b, len)[k + 1], fm[k][2])]

Init ==
    \E b \in valid_bc, len \in 1..MaxL :
        \E fs \in FormInputs(len) :
            /\ ~parse_form_raises(fs, len)
            /\ bc = b
            /\ sites = [k \in 1..len |-> 2]
            /\ form = parse_form(fs, len)
            /\ S = InitS(b, len)
            /\ B = InitB(b, len, parse_form(fs, len))
            /\ steps = 0
            /\ ret = NoCall

\* The spectra __init__ stores as the caller supplied them on every bond.
construct_S_as_given(SVs) ==
    [k \in 1..(L + 1) |-> IF k <= Len(SVs) THEN SVs[k] ELSE "unset"]

\* The spectra __init__ stores, of the supplied SVs (SVs[k] is bond k-1).
construct_S(SVs) ==
    [k \in 1..(L + 1) |->
        IF bc = "finite" /\ (k = 1 \/ k = L + 1) THEN "one"
        ELSE IF bc = "infinite" /\ k = L + 1 THEN SVs[1]
        ELSE SVs[k]]

\* The fields of an object whose construction stopped before setting them.
NotConstructed(st, b, call, e, msg) ==
    /\ sites = st /\ bc = b /\ steps = 0
    /\ form = <<>> /\ B = <<>> /\ S = <<>>
    /\ ret = [call EXCEPT !.err = e, !.msg = msg]

\* __init__(sites, Bs, SVs, bc, form) on any arguments: the fields it sets
\* and the exception it ends with, as the result of `call`.
construct(st, Bs, SVs, b, fs, call) ==
    IF parse_form_raises(fs, Len(st))
    THEN NotConstructed(st, b, call, "ValueError", "Wrong len of form")
    ELSE /\ sites = st /\ bc = b /\ steps = 0
         /\ form = parse_form(fs, Len(st))
         /\ B = [k \in 1..Len(Bs) |-> Copy(Bs[k])]
         /\ IF \E ib \in nontrivial_bonds : ib + 1 > Len(SVs)
            THEN /\ S = [k \in 1..(L + 1) |->
                            IF k <= Len(SVs) /\ (k - 1) \in nontrivial_bonds
                            THEN SVs[k] ELSE "unset"]
                 /\ ret = [call EXCEPT !.err = "IndexError"]
            ELSE /\ S = construct_S(SVs)
                 /\ ret = [call EXCEPT !.err = IF test_sanity_ = "" THEN "" ELSE "ValueError",
                                       !.msg = test_sanity_]

\* An entry of p_state: the index of a basis state, or a coefficient vector
\* of the given length.
Basis(n) == [kind |-> "int", v |-> n]

Coeffs(n) == [kind |-> "vec", v |-> n]

\* The loop of from_product_state over the sites: the exception of the first
\* entry that raises one, "" when every tensor is built.
RECURSIVE product_loop(_, _, _)
product_loop(st, p_state, k) ==
    IF k > Len(st) THEN ""
    ELSE IF p_state[k].kind = "vec" /\ p_state[k].v # st[k] THEN "ValueError"
    ELSE IF p_state[k].kind = "int" /\ p_state[k].v >= st[k] THEN "IndexError"
    ELSE product_loop(st, p_state, k + 1)

\* The tensor from_product_state builds for site k-1: the local state
\* p_state[k] between two virtual legs of dimension 1.
ProductTensor(p_state, k) ==
    [id |-> k, G |-> <<p_state[k]>>,
     legs |-> [l \in {"p", "vL", "vR"} |-> {}],
     inner |-> <<>>, lossy |-> FALSE, chi |-> <<1, 1>>]

\* from_product_state without the test of the length of p_state: the loop
\* takes the entries it finds.
from_product_state_no_len_test(st, p_state, b, fs) ==
    LET call == [NoCall EXCEPT !.op = "from_product_state", !.p_state = p_state, !.bc = b,
                               !.forms = IF parse_form_raises(fs, Len(st)) THEN <<>>
                                         ELSE parse_form(fs, Len(st))]
        n == IF Len(p_state) < Len(st) THEN Len(p_state) ELSE Len(st)
    IN IF Len(p_state) < Len(st) THEN NotConstructed(st, b, call, "IndexError", "")
       ELSE IF product_loop(st, p_state, 1) # ""
       THEN NotConstructed(st, b, call, product_loop(st, p_state, 1), "")
       ELSE construct(st, [k \in 1..n |-> ProductTensor(p_state, k)],
                      [k \in 1..(Len(st) + 1) |-> "one"], b, fs, call)

from_product_state(st, p_state, b, fs) ==
    LET call == [NoCall EXCEPT !.op = "from_product_state", !.p_state = p_state, !.bc = b,
                               !.forms = IF parse_form_raises(fs, Len(st)) THEN <<>>
                                         ELSE parse_form(fs, Len(st))]
    IN IF Len(p_state) # Len(st)
       THEN NotConstructed(st, b, call, "ValueError", "Length of p_state does not match")
       ELSE IF product_loop(st, p_state, 1) # ""
       THEN NotConstructed(st, b, call, product_loop(st, p_state, 1), "")
       ELSE construct(st, [k \in 1..Len(st) |-> ProductTensor(p_state, k)],
                      [k \in 1..(Len(st) + 1) |-> "one"], b, fs, call)

\* The arguments a caller passes to __init__: tensors of virtual dimensions
\* 1 or 2, one per site or one too few or too many; spectra of dimension 1
\* or 2, one per bond or one too few; one form for all sites or a list.
CallerBs(len) ==
    UNION {{[k \in 1..n |-> SiteTensor(k, k, sl[k], 0, sr[k], 0)] :
              sl \in [1..n -> {"one", "t"}], sr \in [1..n -> {"one", "t"}]} :
           n \in {m \in (len - 1)..(len + 1) : m >= 1}}

CallerSVs(len) == UNION {[1..n -> SanityValues] : n \in len..(len + 1)}

CallerForms(len) == {<<Named("B")>>, <<Named("None")>>, [k \in 1..(len + 1) |-> Named("A")]}

\* The arguments of from_product_state: sites of local dimension 2 or 3,
\* basis indices 0, 1 and 3, vectors of length 2 and 3.
LocalDims == {2, 3}

PEntries == {Basis(0), Basis(1), Basis(3), Coeffs(2), Coeffs(3)}

CallerPStates(len) == UNION {[1..n -> PEntries] : n \in {m \in (len - 1)..(len + 1) : m >= 1}}

\* A call of the constructor or of from_product_state on any arguments.
InitConstruct ==
    \E b \in valid_bc, len \in 1..MaxL :
        \/ \E Bs \in CallerBs(len), SVs \in CallerSVs(len), fs \in CallerForms(len) :
              construct([k \in 1..len |-> 2], Bs, SVs, b, fs,
                        [NoCall EXCEPT !.op = "__init__", !.Bs = Bs, !.SVs = SVs, !.bc = b])
        \/ \E st \in [1..len -> LocalDims], p_state \in CallerPStates(len),
               fs \in CallerForms(len) :
              from_product_state(st, p_state, b, fs)

\* The caller drops the result of the last call; the next call follows.
Return ==
    /\ ret # NoCall
    /\ ret' = NoCall
    /\ UNCHANGED <<bc, sites, B, S, form, steps>>

ScaleTensors == IF ret = NoCall THEN {B[1], Conj(B[1])} ELSE {}

SetBTensors(i) == IF ret = NoCall THEN CallerTensors(to_valid_index(i)) ELSE {}

Next ==
    \/ \E i \in Indices, f \in FormArgs, copy \in BOOLEAN : get_B(i, f, copy)
    \/ \E i \in Indices : get_SL(i)
    \/ \E i \in Indices : get_SR(i)
    \/ \E i \in Indices, n \in 1..MaxN, formL \in {0, 2}, formR \in {0, 2} :
          get_theta(i, n, formL, formR)
    \/ \E T \in ScaleTensors, s \in {S[1], "M", "T3"}, d \in FormDiffs, a \in AxisNames :
          call_scale_axis_B(T, s, d, a)
    \/ \E i \in 0..(L - 1), nf \in FormArgs : convert_there_and_back(i, nf)
    \/ \E i \in Indices, s \in SetterValues : set_SL(i, s)
    \/ \E i \in Indices, s \in SetterValues : set_SR(i, s)
    \/ \E i \in Indices, f \in SetBForms : \E T \in SetBTensors(i) : set_B(i, T, f)
    \/ \E fs \in FormInputs(L) : convert_form(fs)
    \/ Return

Spec == Init /\ [][Next]_vars

\* The spectrum accessors and setters alone.
NextSpectra ==
    \/ \E i \in Indices : get_SL(i)
    \/ \E i \in Indices : get_SR(i)
    \/ \E i \in Indices, s \in SetterValues : set_SL(i, s)
    \/ \E i \in Indices, s \in SetterValues : set_SR(i, s)
    \/ Return

SpecSpectra == Init /\ [][NextSpectra]_vars

\* The rescale primitive alone, on the tensors and spectra of a new MPS.
NextScale ==
    \/ \E T \in ScaleTensors, s \in {S[1], "M", "T3"}, d \in FormDiffs, a \in AxisNames :
          call_scale_axis_B(T, s, d, a)
    \/ Return

SpecScale == Init /\ [][NextScale]_vars

\* get_theta on the states the constructor and set_SL produce.
NextTheta ==
    \/ \E i \in Indices, n \in 1..MaxN, formL \in {0, 2}, formR \in {0, 2} :
          get_theta(i, n, formL, formR)
    \/ \E i \in Indices, s \in SetterValues : set_SL(i, s)
    \/ Return

SpecTheta == Init /\ [][NextTheta]_vars

\* The tensor T with one more leg, labelled 'q' (npc.Array.add_trivial_leg).
add_trivial_leg(T) ==
    [T EXCEPT !.id = NewBuf(T.id),
              !.legs = [l \in Labels(T) \cup {"q"} |-> IF l = "q" THEN {} ELSE T.legs[l]]]

\* The tensors a caller hands to set_B before a test_sanity: the site's
\* tensor with a fourth leg, and with its leg 'p' under the label 'p0'.
SanityTensors(i) ==
    IF ret # NoCall THEN {}
    ELSE IF to_valid_index(i) = OutOfBounds THEN {B[1]}
    ELSE {add_trivial_leg(B[to_valid_index(i) + 1])}
         \cup {replace_label(T, "p", "p0") :
                  T \in {X \in {B[to_valid_index(i) + 1]} : "p" \in Labels(X)}}

\* test_sanity on the states the constructor, set_SL, set_SR and set_B
\* produce.
NextSanity ==
    \/ test_sanity
    \/ \E i \in Indices : \E T \in SanityTensors(i) : set_B(i, T, Named("B"))
    \/ \E i \in Indices, s \in SanityValues : set_SL(i, s)
    \/ \E i \in Indices, s \in SanityValues : set_SR(i, s)
    \/ Return

SpecSanity == Init /\ [][NextSanity]_vars

\* The object exists: no call of the constructor has failed.
Constructed == ret.op \notin {"__init__", "from_product_state"} \/ ret.err = ""

\* The constructor and from_product_state on any arguments, and test_sanity
\* on the object they return.
NextConstruct ==
    \/ Constructed /\ Return
    \/ test_sanity

SpecConstruct == InitConstruct /\ [][NextConstruct]_vars

\* ------------------------------------------------------------------ claims

\* C1 (state part): in an infinite MPS spectra[L] and spectra[0] are the same
\* value, after construction and after every call.
C1_Identified == bc = "infinite" => S[L + 1] = S[1]

\* C1 (step part): a successful set_SL writes spectra[idx], and for an
\* infinite MPS at idx = 0 also spectra[L]; a successful set_SR writes
\* spectra[idx+1], and for an infinite MPS at idx = L-1 also spectra[0]; every
\* other spectrum entry keeps its value, so that for 'finite' and 'segment'
\* each setter writes exactly one entry.
C1_SetterStep ==
    /\ (ret'.op = "set_SL" /\ ret'.err = "") =>
          /\ S'[ret'.idx + 1] = ret'.sv
          /\ (bc = "infinite" /\ ret'.idx = 0) => S'[L + 1] = ret'.sv
          /\ \A b \in 1..(L + 1) :
                (b # ret'.idx + 1 /\ ~(bc = "infinite" /\ ret'.idx = 0 /\ b = L + 1))
                    => S'[b] = S[b]
    /\ (ret'.op = "set_SR" /\ ret'.err = "") =>
          /\ S'[ret'.idx + 2] = ret'.sv
          /\ (bc = "infinite" /\ ret'.idx = L - 1) => S'[1] = ret'.sv
          /\ \A b \in 1..(L + 1) :
                (b # ret'.idx + 2 /\ ~(bc = "infinite" /\ ret'.idx = L - 1 /\ b = 1))
                    => S'[b] = S[b]

\* C1: for boundary 'infinite', after construction and after any sequence of
\* set_SL and set_SR calls with arbitrary integer i, spectra[L] equals
\* spectra[0]; for 'finite' and 'segment' each setter writes exactly one entry.
C1_SpectraIdentification == []C1_Identified /\ [][C1_SetterStep]_vars

\* An infinite 2-site MPS after set_SR(-1, M): bond L and bond 0 both hold M.
C1_Witness ==
    /\ bc = "infinite" /\ L = 2
    /\ ret.op = "set_SR" /\ ret.i = 0 - 1 /\ ret.idx = 1 /\ ret.sv = "M"
    /\ S[1] = "M" /\ S[3] = "M"

\* The index the resolver is to return for i: for 'infinite' the residue of
\* i modulo L, else i, or i + L for -L <= i < 0, or the out-of-bounds error.
ExpectedIndex(i) ==
    IF bc = "infinite"
    THEN CHOOSE k \in 0..(L - 1) : \E q \in (0 - MaxL - 1)..(MaxL + 1) : i = k + q * L
    ELSE IF 0 <= i /\ i < L THEN i
    ELSE IF 0 - L <= i /\ i < 0 THEN i + L
    ELSE OutOfBounds

IndexedOps == {"get_B", "set_B", "get_SL", "get_SR", "set_SL", "set_SR", "get_theta"}

\* C2 (state part): every accessor and setter resolves its index to
\* ExpectedIndex(i), fails with ValueError exactly when that is out of bounds
\* (never for 'infinite'), and reads or writes the state at the resolved index.
C2_Resolved ==
    ret.op \in IndexedOps =>
        LET e == ExpectedIndex(ret.i)
        IN /\ ret.idx = e
           /\ bc = "infinite" => e \in 0..(L - 1)
           /\ e = OutOfBounds =>
                 /\ bc # "infinite"
                 /\ ret.i >= L \/ ret.i < 0 - L
                 /\ ret.err = "ValueError" /\ ret.val = NoTensor
           /\ (e # OutOfBounds /\ ret.err = "") =>
                 /\ ret.op = "get_SL" => ret.sv = S[e + 1]
                 /\ ret.op = "get_SR" => ret.sv = S[e + 2]
                 /\ ret.op = "set_SL" => S[e + 1] = ret.sv
                 /\ ret.op = "set_SR" => S[e + 2] = ret.sv
                 /\ ret.op = "set_B" => B[e + 1] = ret.arg /\ form[e + 1] = ret.f
                 /\ ret.op = "get_B" => ret.val.G = B[e + 1].G
                 /\ ret.op = "get_theta" => ret.val.G[1] = B[e + 1].G[1]
           /\ (e # OutOfBounds /\ ret.op \in {"get_SL", "get_SR", "set_SL", "set_SR", "set_B"})
                 => ret.err = ""

\* C2 (step part): a call whose index is out of bounds changes no tensor,
\* spectrum or form tag.
C2_FailedStep ==
    (ret'.op \in IndexedOps /\ ret'.idx = OutOfBounds) => UNCHANGED <<B, S, form>>

\* C2: _to_valid_index(i) returns i mod L for 'infinite' and never fails; for
\* 'finite'/'segment' it returns i for 0 <= i < L, i + L for -L <= i < 0 and
\* fails for every other i; every accessor and setter resolves its index this
\* way before touching state.
C2_IndexResolver == []C2_Resolved /\ [][C2_FailedStep]_vars

\* A finite 2-site MPS where get_SR(-2) read spectra[1], right of site 0.
C2_Witness ==
    /\ bc = "finite" /\ L = 2
    /\ ret.op = "get_SR" /\ ret.i = 0 - 2 /\ ret.idx = 0 /\ ret.sv = S[2]

\* X holds the same values as T in another data buffer.
IsCopyOf(X, T) == X.id # T.id /\ [X EXCEPT !.id = T.id] = T

\* C3 (state part): the case table of _convert_form_i as get_B applies it to
\* the stored tensor of the resolved site.
C3_CaseTable ==
    (ret.op = "get_B" /\ ret.idx # OutOfBounds) =>
        LET T == B[ret.idx + 1]
            cur == form[ret.idx + 1]
        IN /\ (ret.f = None \/ cur = ret.f) =>
                 /\ ret.err = ""
                 /\ IF ret.copy THEN IsCopyOf(ret.val, T) ELSE ret.val = T
           /\ (cur = None /\ ret.f # None) =>
                 ret.err = "ValueError" /\ ret.val = NoTensor

\* C3 (step part): get_B, failing or not, changes no tensor, spectrum or tag.
C3_NoChange == ret'.op = "get_B" => UNCHANGED <<B, S, form>>

\* C3: _convert_form_i returns B itself (a copy when requested) when new_form
\* is None, whatever the current form, and when form equals new_form; it
\* fails when form is None and new_form is concrete, and then changes nothing.
C3_ConvertFormCases == []C3_CaseTable /\ [][C3_NoChange]_vars

\* get_B(i, 'B') failed on a site of form None.
C3_Witness ==
    /\ ret.op = "get_B" /\ ret.idx # OutOfBounds
    /\ form[ret.idx + 1] = None /\ ret.f = <<0, 2>> /\ ret.err = "ValueError"

\* The stored tensor of site k-1 carries exactly the exponents of its tag:
\* spectra[k-1]^a on vL and spectra[k]^b on vR for form (a, b).
CarriesTag(k) ==
    /\ form[k] # None
    /\ B[k].legs["vL"] = AddExp({}, S[k], form[k][1])
    /\ B[k].legs["vR"] = AddExp({}, S[k + 1], form[k][2])

\* C4 (state part): a get_B that returns for a concrete requested form (a', b')
\* on a site tagged (a, b) has rescaled vL by spectra[i]^(a'-a) and vR by
\* spectra[i+1]^(b'-b) and nothing else; when the stored tensor carried its
\* tag, the result carries exactly a' on vL and b' on vR.
C4_Rescaled ==
    (ret.op = "get_B" /\ ret.idx # OutOfBounds /\ ret.err = "" /\ ret.f # None
        /\ form[ret.idx + 1] # None) =>
        LET k == ret.idx + 1
        IN /\ ret.val.legs["vL"] = AddExp(B[k].legs["vL"], S[k], ret.f[1] - form[k][1])
           /\ ret.val.legs["vR"] = AddExp(B[k].legs["vR"], S[k + 1], ret.f[2] - form[k][2])
           /\ ret.val.legs["p"] = B[k].legs["p"]
           /\ Labels(ret.val) = Labels(B[k])
           /\ ret.val.G = B[k].G /\ ret.val.inner = B[k].inner
           /\ CarriesTag(k) =>
                 /\ ret.val.legs["vL"] = AddExp({}, S[k], ret.f[1])
                 /\ ret.val.legs["vR"] = AddExp({}, S[k + 1], ret.f[2])

\* C4 (step part): get_B writes no stored tensor, spectrum or form tag.
C4_ReadOnly == ret'.op = "get_B" => (B' = B /\ S' = S /\ form' = form)

\* C4: get_B(i, form=(a', b')) on a site whose tensor carries its tag (a, b)
\* returns a tensor carrying exactly a' of spectra[i] on vL and b' of
\* spectra[i+1] on vR, and changes nothing stored.
C4_GetBForm == []C4_Rescaled /\ [][C4_ReadOnly]_vars

\* get_B(i, 'C') on the last site of an infinite 2-site MPS stored in form A:
\* the right leg carries the half power of the wrapped spectrum, spectra[L].
C4_Witness ==
    /\ bc = "infinite" /\ L = 2
    /\ ret.op = "get_B" /\ ret.idx = 1 /\ ret.err = "" /\ ret.f = <<1, 1>>
    /\ form[2] = <<2, 0>> /\ CarriesTag(2)
    /\ ret.val.legs["vL"] = {<<S[2], 1>>}
    /\ ret.val.legs["vR"] = {<<S[3], 1>>} /\ S[3] = S[1]

\* X holds the same values as T (in whatever data buffer).
SameValues(X, T) == [X EXCEPT !.id = T.id] = T

\* Every entry of the spectrum value is nonzero ("M" is an invertible matrix
\* without zero entries; "z" is a vector with a zero entry).
AllEntriesNonzero(s) == s # "z"

\* _scale_axis_B accepts the exponent d for s: any d for a 1-D vector, only
\* 0 and +-1 (2 halves) for a 2-D matrix.
Supported(s, d) == ~IsNpcArray(s) \/ d \in {0 - 2, 0, 2}

\* The round trip of site k-1 from its form X = form[k] to Y = ret.f and back
\* has been made, between two concrete forms.
RoundTripMade(k) ==
    /\ ret.op = "_convert_form_i" /\ ret.idx = k - 1
    /\ form[k] # None /\ ret.f # None

\* C5 as stated: for any site and any two concrete forms X, Y the conversion
\* from X to Y and back reproduces the original tensor, for spectra with all
\* entries nonzero.
C5_RoundTripAnySpectrum ==
    \A k \in 1..L :
        (RoundTripMade(k) /\ AllEntriesNonzero(S[k]) /\ AllEntriesNonzero(S[k + 1]))
            => (ret.err = "" /\ SameValues(ret.val, B[k]))

\* C5 as amended: the round trip reproduces the original tensor for spectra
\* with all entries nonzero whenever _scale_axis_B supports both exponent
\* differences (always for 1-D spectra; only 0 and +-1 for a 2-D spectrum);
\* with a 2-D spectrum and another difference the conversion fails.
C5_RoundTrip ==
    \A k \in 1..L :
        (RoundTripMade(k) /\ AllEntriesNonzero(S[k]) /\ AllEntriesNonzero(S[k + 1])) =>
            IF /\ Supported(S[k], ret.f[1] - form[k][1])
               /\ Supported(S[k + 1], ret.f[2] - form[k][2])
            THEN ret.err = "" /\ SameValues(ret.val, B[k])
            ELSE ret.err = "ValueError"

\* A site stored in form A was converted to C, which put the half power of
\* both 1-D spectra on its legs, and back to A.
C5_Witness ==
    \E k \in 1..L :
        /\ RoundTripMade(k) /\ form[k] = <<2, 0>> /\ ret.f = <<1, 1>>
        /\ CarriesTag(k) /\ Rank(S[k]) = 1 /\ Rank(S[k + 1]) = 1 /\ S[k] # S[k + 1]
        /\ ret.arg.legs["vL"] = {<<S[k], 1>>} /\ ret.arg.legs["vR"] = {<<S[k + 1], 1>>}
        /\ ret.err = "" /\ SameValues(ret.val, B[k]) /\ ret.val.id # B[k].id

\* C6, first part: a convert_form that returns normally has set every site's
\* tag to the form requested for it and left all spectra alone; a site whose
\* tensor carried the exponents of its old tag carries those of its new tag
\* (a site for which None was requested keeps its tensor).
C6_Converted ==
    (ret'.op = "convert_form" /\ ret'.err = "") =>
        /\ S' = S
        /\ \A k \in 1..L :
              /\ form'[k] = ret'.forms[k]
              /\ (CarriesTag(k) /\ form'[k] # None) => CarriesTag(k)'
              /\ ret'.forms[k] = None => B'[k] = B[k]

\* C6, second part as stated: convert_form fails whenever any site's current
\* form is None.
C6_FailsOnAnyUnknown ==
    (ret'.op = "convert_form" /\ \E k \in 1..L : form[k] = None) => ret'.err # ""

\* C6, second part as amended: convert_form fails whenever some site's current
\* form is None and the form requested for that site is not None.
C6_FailsOnUnknownToConcrete ==
    (/\ ret'.op = "convert_form" /\ ret'.forms # <<>>
     /\ \E k \in 1..L : form[k] = None /\ ret'.forms[k] # None)
        => ret'.err = "ValueError"

C7_ZeroExponentIdentity ==
    (ret.op = "_scale_axis_B" /\ ret.fL = 0) => (ret.err = "" /\ ret.val = ret.arg)

\* _scale_axis_B(B, M, 0, 'p') with the 2-D spectrum M and a leg name the
\* matrix path rejects handed back B itself.
C7_Witness ==
    /\ ret.op = "_scale_axis_B" /\ ret.fL = 0 /\ ret.sv = "M" /\ ret.axis = "p"
    /\ ret.arg # NoTensor /\ ret.val = ret.arg /\ ret.val.id = ret.arg.id

\* C8: for a 2-D spectrum _scale_axis_B contracts the matrix (form_diff +1)
\* or its pseudo-inverse (form_diff -1) into the named leg and leaves the
\* other legs alone, from the left for 'vL'/'vL*' and from the right for
\* 'vR'/'vR*'; every other nonzero exponent and, for +-1, every other leg
\* name fails with ValueError.
C8_MatrixSpectrum ==
    (ret.op = "_scale_axis_B" /\ IsNpcArray(ret.sv) /\ Rank(ret.sv) = 2 /\ ret.fL # 0) =>
        IF ret.fL \notin {2, 0 - 2} THEN ret.err = "ValueError"
        ELSE IF ret.axis \notin {"vL", "vL*", "vR", "vR*"} THEN ret.err = "ValueError"
        ELSE IF ret.axis \notin Labels(ret.arg) THEN ret.err # ""
        ELSE /\ ret.err = ""
             /\ Labels(ret.val) = Labels(ret.arg)
             /\ ret.val.legs[ret.axis] = AddExp(ret.arg.legs[ret.axis], ret.sv, ret.fL)
             /\ \A l \in Labels(ret.arg) \ {ret.axis} : ret.val.legs[l] = ret.arg.legs[l]
             /\ ret.val.G = ret.arg.G

\* The pseudo-inverse of M was contracted into leg 'vL*' of a conjugated
\* tensor.
C8_Witness ==
    /\ ret.op = "_scale_axis_B" /\ ret.sv = "M" /\ ret.fL = 0 - 2 /\ ret.axis = "vL*"
    /\ ret.err = "" /\ Exp(ret.val.legs["vL*"], "M") = Exp(ret.arg.legs["vL*"], "M") - 2

\* The window of the last get_theta call lies inside the chain.
WindowInBounds ==
    ~finite \/ (ret.idx # OutOfBounds /\ 0 <= ret.idx /\ ret.idx + ret.n <= L)

\* The 1-based positions of the first and of the last site of the window.
FirstSite == ret.idx + 1

LastSite == ((ret.idx + ret.n - 1) % L) + 1

\* Some site strictly inside the window has form None.
IntermediateUnknown ==
    \E k \in 1..(ret.n - 2) : form[((ret.idx + k) % L) + 1] = None

\* C9: get_theta(i, n) fails with ValueError for finite/segment unless the
\* resolved i has 0 <= i and i + n <= L, and for every boundary when the first
\* site i or the last site (i+n-1) mod L has form None; with the window in
\* bounds, both end sites of known form and 1-D spectra it returns the tensor
\* of the sites (i+k) mod L, k = 0..n-1, with legs vL, vR, p0..p{n-1}, whether
\* or not a site in between has form None; an infinite MPS never fails on
\* the bounds.
C9_ThetaPreconditions ==
    ret.op = "get_theta" =>
        /\ ~WindowInBounds => ret.err = "ValueError"
        /\ (WindowInBounds /\ (form[FirstSite] = None \/ form[LastSite] = None)) =>
              ret.err = "ValueError"
        /\ (WindowInBounds /\ form[FirstSite] # None /\ form[LastSite] # None
              /\ \A b \in 1..(L + 1) : ~IsNpcArray(S[b])) =>
              /\ ret.err = ""
              /\ Labels(ret.val) = {"vL", "vR"} \cup {PLabel(k) : k \in 0..(ret.n - 1)}
              /\ ret.val.G = [k \in 1..ret.n |-> B[((ret.idx + k - 1) % L) + 1].G[1]]
        /\ (~finite /\ ret.err # "") =>
              \/ form[FirstSite] = None \/ form[LastSite] = None
              \/ \E b \in 1..(L + 1) : IsNpcArray(S[b])

\* A window that wraps around the unit cell of an infinite MPS, with a site
\* of form None strictly inside, was contracted without an error.
C9_Witness ==
    /\ ret.op = "get_theta" /\ ret.err = "" /\ bc = "infinite"
    /\ ret.idx + ret.n > L /\ IntermediateUnknown
    /\ form[FirstSite] # None /\ form[LastSite] # None

\* C10: on a site of known form get_theta(i, 1, formL=0, formR=1) and
\* get_B(i, 'B') fail alike or return the same tensor up to the label 'p0' for
\* 'p'; when the stored tensor carries its declared exponents and nothing was
\* divided by a zero, the result has exponent 0 of spectra[i] on vL and
\* exponent 1 of spectra[i+1] on vR.
C10_ThetaOneSiteIsGetB ==
    (ret.op = "get_theta" /\ ret.n = 1 /\ ret.fL = 0 /\ ret.fR = 2
        /\ ret.idx # OutOfBounds /\ form[FirstSite] # None) =>
        LET b == get_B_(ret.i, Named("B"), FALSE)
        IN /\ ret.err = b.err
           /\ ret.err = "" =>
                 /\ SameValues(ret.val, replace_label(b.val, "p", "p0"))
                 /\ (CarriesTag(FirstSite) /\ ~ret.val.lossy) =>
                       /\ ret.val.legs["vL"] = {}
                       /\ ret.val.legs["vR"] = AddExp({}, S[FirstSite + 1], 2)
                       /\ b.val.legs["vL"] = {}
                       /\ b.val.legs["vR"] = AddExp({}, S[FirstSite + 1], 2)

\* get_theta(i, 1, 0, 1) returned on a site stored in form A, where both legs
\* had to be rescaled.
C10_Witness ==
    /\ ret.op = "get_theta" /\ ret.n = 1 /\ ret.fL = 0 /\ ret.fR = 2
    /\ ret.idx # OutOfBounds /\ ret.err = ""
    /\ form[FirstSite] = valid_forms("A") /\ CarriesTag(FirstSite)
    /\ S[FirstSite] # "one" /\ S[FirstSite + 1] # "one"
    /\ ret.val.legs["vL"] = {} /\ Exp(ret.val.legs["vR"], S[FirstSite + 1]) = 2

\* Every spectrum has the dimension of the virtual legs next to it, and
\* neighbouring virtual legs have the same dimension.
DimensionsMatch ==
    \A k \in 1..Len(B) :
        /\ Dim(S[k]) = B[k].chi[1] /\ Dim(S[k + 1]) = B[k].chi[2]
        /\ (~finite \/ k < L) => B[k].chi[2] = B[(k % L) + 1].chi[1]

\* The spectrum value is np.ones([1]): of dimension 1 and of value 1.
IsTrivial(s) == s = "one"

\* One of the invariants C11 lists is violated, a finite boundary spectrum
\* being trivial when it has dimension 1 and value 1.
ViolatedAsStated ==
    \/ Len(B) # L
    \/ Len(S) # L + 1
    \/ ~DimensionsMatch
    \/ bc = "finite" /\ ~(IsTrivial(S[1]) /\ IsTrivial(S[L + 1]))
    \/ bc = "infinite" /\ S[L + 1] # S[1]

\* The same with the test the code makes of a finite boundary spectrum: its
\* dimension is 1.
ViolatedByDimension ==
    \/ Len(B) # L
    \/ Len(S) # L + 1
    \/ ~DimensionsMatch
    \/ bc = "finite" /\ ~(Dim(S[1]) = 1 /\ Dim(S[L + 1]) = 1)
    \/ bc = "infinite" /\ S[L + 1] # S[1]

\* Every stored tensor has the legs vL, vR and p and no other.
ThreeLegs == \A k \in 1..Len(B) : Labels(B[k]) = {"vL", "vR", "p"}

\* C11: test_sanity raises nothing on a well-formed state and raises on every
\* state that violates one of the invariants: the number of tensors, the
\* number of spectra, the dimensions of spectra and virtual legs, a finite
\* boundary spectrum that is not trivial (dimension 1 and value 1), an
\* infinite state with spectra[L] # spectra[0].
C11_TestSanityAsStated ==
    ret.op = "test_sanity" =>
        /\ (ThreeLegs /\ ~ViolatedAsStated) => ret.err = ""
        /\ ViolatedAsStated => ret.err = "ValueError"

\* What test_sanity does: it raises on a finite boundary spectrum of a
\* dimension other than 1, whatever the value of one of dimension 1.
TestSanityByDimension ==
    ret.op = "test_sanity" =>
        /\ (ThreeLegs /\ ~ViolatedByDimension) => ret.err = ""
        /\ ViolatedByDimension => ret.err = "ValueError"

\* test_sanity returned on a finite MPS whose spectra[0] is [0.5].
TestSanityAcceptsHalf ==
    ret.op = "test_sanity" /\ ret.err = "" /\ bc = "finite" /\ S[1] = "half"

\* C12: test_sanity returns only when every stored tensor has exactly the
\* legs vL, vR and p: a tensor with a further leg, or without one of the
\* three, makes it raise.
C12_ExactLegSetAsStated ==
    (ret.op = "test_sanity" /\ ret.err = "") =>
        \A k \in 1..Len(B) : Labels(B[k]) = {"vL", "vR", "p"}

\* What test_sanity does: every tensor it accepts has at least the three
\* legs, and a tensor without one of them makes it raise.
TestSanityLegSuperset ==
    ret.op = "test_sanity" =>
        /\ ret.err = "" => \A k \in 1..Len(B) : {"vL", "vR", "p"} \subseteq Labels(B[k])
        /\ (\E k \in 1..Len(B) : ~({"vL", "vR", "p"} \subseteq Labels(B[k]))) =>
              ret.msg = "B has wrong labels"

\* test_sanity returned with a stored tensor of four legs.
TestSanityAcceptsFourLegs ==
    /\ ret.op = "test_sanity" /\ ret.err = ""
    /\ \E k \in 1..Len(B) : Labels(B[k]) = {"vL", "vR", "p", "q"}

\* The entry of p_state for site k-1 is a coefficient vector of a length
\* other than the site's dimension.
BadCoeffs(k) == ret.p_state[k].kind = "vec" /\ ret.p_state[k].v # sites[k]

\* The entry of p_state for site k-1 is no index of a basis state of the site.
BadIndex(k) == ret.p_state[k].kind = "int" /\ ret.p_state[k].v \notin 0..(sites[k] - 1)

\* C13: from_product_state raises ValueError when p_state has not one entry
\* per site and when a coefficient vector has not the length of its site's
\* dimension; on one valid entry per site (a basis index of the site or a
\* vector of its dimension) and a form for every site it returns an MPS of
\* length len(sites) with the requested bc, every form tag as requested,
\* every virtual leg of dimension 1 and all L+1 spectra equal to [1.].
\* (A basis index outside the site's dimension raises IndexError, a form
\* list of another length ValueError.)
C13_FromProductState ==
    ret.op = "from_product_state" =>
        /\ Len(ret.p_state) # L => ret.err = "ValueError"
        /\ (Len(ret.p_state) = L
              /\ \E k \in 1..L : BadCoeffs(k) /\ \A j \in 1..(k - 1) : ~BadIndex(j)) =>
              ret.err = "ValueError"
        /\ (Len(ret.p_state) = L
              /\ \E k \in 1..L : BadIndex(k) /\ \A j \in 1..(k - 1) : ~BadCoeffs(j)) =>
              ret.err = "IndexError"
        /\ (Len(ret.p_state) = L /\ \A k \in 1..L : ~BadCoeffs(k) /\ ~BadIndex(k)) =>
              IF ret.forms = <<>> THEN ret.err = "ValueError"
              ELSE /\ ret.err = ""
                   /\ bc = ret.bc
                   /\ Len(B) = L /\ Len(S) = L + 1
                   /\ form = ret.forms
                   /\ \A k \in 1..L : B[k].chi = <<1, 1>> /\ Labels(B[k]) = {"vL", "vR", "p"}
                   /\ \A k \in 1..(L + 1) : S[k] = "one"

\* from_product_state over two sites of dimension 2 with p_state = [0, 1]
\* and bc = 'finite' returned an MPS with L = 2 and unit spectra.
C13_Witness ==
    /\ ret.op = "from_product_state" /\ ret.err = ""
    /\ sites = <<2, 2>> /\ ret.p_state = <<Basis(0), Basis(1)>> /\ bc = "finite"
    /\ S = <<"one", "one", "one">> /\ Len(B) = 2

\* C15 (the result of the constructor): the stored spectra are the supplied
\* ones on the nontrivial bonds; for 'finite' spectra[0] and spectra[L] are
\* np.ones([1]) and for 'infinite' spectra[L] is spectra[0], whatever was
\* supplied there; the constructor returns only when test_sanity passes.
C15_Returned ==
    ret.op = "__init__" =>
        /\ ret.err = "" =>
              /\ \A ib \in nontrivial_bonds : S[ib + 1] = ret.SVs[ib + 1]
              /\ bc = "finite" => (S[1] = "one" /\ S[L + 1] = "one")
              /\ bc = "infinite" => S[L + 1] = ret.SVs[1]
              /\ bc = ret.bc
        /\ test_sanity_ # "" => ret.err # ""

\* C15 (every state of a constructed MPS): L tensors, L+1 spectra and L form
\* tags.
C15_Lengths == Constructed => (Len(B) = L /\ Len(S) = L + 1 /\ Len(form) = L)

C15_Constructor == C15_Returned /\ C15_Lengths

\* The constructor returned a finite MPS of two sites for which the caller
\* supplied a vector of two entries on bond 0 and [0.5] on bond L.
C15_Witness ==
    /\ ret.op = "__init__" /\ ret.err = "" /\ bc = "finite" /\ L = 2
    /\ ret.SVs = <<"t", "one", "half">> /\ S = <<"one", "one", "one">>

\* The 1-based position of the k-th site of the window, k = 0 .. n-1.
WindowSite(k) == ((ret.idx + k) % L) + 1

\* The exponent get_theta multiplies into vL of the k-th site, k >= 1: none
\* when the site or the one before it has form None.
LeftCorrection(k) ==
    IF form[WindowSite(k)] = None \/ form[WindowSite(k - 1)] = None THEN 0
    ELSE 2 - form[WindowSite(k)][1] - form[WindowSite(k - 1)][2]

\* C14 (what is multiplied in): the result of get_theta has on vL the stored
\* vL of the first site times spectra[i]^(formL - fL), on vR the stored vR of
\* the last site times its right spectrum^(formR - fR) with fR the known
\* right exponent of the last site, and on the k-th internal bond the stored
\* vR of site k-1 times the stored vL of site k times the shared
\* spectrum^(1 - fL_k - fR_{k-1}); a site of form None and the site after it
\* enter as stored.
C14_Propagation ==
    (ret.op = "get_theta" /\ ret.err = "") =>
        /\ ret.val.legs["vL"] =
              AddExp(B[FirstSite].legs["vL"], S[FirstSite], ret.fL - form[FirstSite][1])
        /\ ret.val.legs["vR"] =
              AddExp(B[LastSite].legs["vR"], S[LastSite + 1], ret.fR - form[LastSite][2])
        /\ Len(ret.val.inner) = ret.n - 1
        /\ \A k \in 1..(ret.n - 1) :
              ret.val.inner[k] =
                  Merge(B[WindowSite(k - 1)].legs["vR"],
                        AddExp(B[WindowSite(k)].legs["vL"], S[WindowSite(k)], LeftCorrection(k)))

\* C14 (the exponents of the result): when every site of the window has a
\* known form and its stored tensor carries the exponents of its tag, the
\* result carries formL of spectra[i] on vL, formR of the right spectrum of
\* the last site on vR and exponent 1 of the shared spectrum on every
\* internal bond.
C14_Exponents ==
    (ret.op = "get_theta" /\ ret.err = ""
        /\ \A k \in 0..(ret.n - 1) : CarriesTag(WindowSite(k))) =>
        /\ ret.val.legs["vL"] = AddExp({}, S[FirstSite], ret.fL)
        /\ ret.val.legs["vR"] = AddExp({}, S[LastSite + 1], ret.fR)
        /\ \A k \in 1..(ret.n - 1) : ret.val.inner[k] = {<<S[WindowSite(k)], 2>>}

\* C14 (the last rescale): get_theta never ends for want of the right
\* exponent of the last site.
C14_FinalExponentKnown == ret.op = "get_theta" => ret.err \in {"", "ValueError"}

C14_GaugePropagation == C14_Propagation /\ C14_Exponents /\ C14_FinalExponentKnown

\* get_theta returned for a window of two sites stored in the forms A and B,
\* where the bond between them carries no spectrum before the call.
C14_Witness ==
    /\ ret.op = "get_theta" /\ ret.err = "" /\ ret.n = 2 /\ ret.idx = 0 /\ L = 2
    /\ form = <<valid_forms("A"), valid_forms("B")>>
    /\ CarriesTag(1) /\ CarriesTag(2)
    /\ B[1].legs["vR"] = {} /\ B[2].legs["vL"] = {}
    /\ ret.val.inner = <<{<<S[2], 2>>}>>

\* Site k-1 has form None and the forms `req` ask a concrete form for it.
UnknownToConcrete(k, req) == form[k] = None /\ req[k] # None

\* The conversion of site k-1 to req[k] raises nothing in _scale_axis_B.
Convertible(k, req) ==
    \/ req[k] = None \/ form[k] = req[k]
    \/ /\ form[k] # None
       /\ Supported(S[k], req[k][1] - form[k][1])
       /\ Supported(S[k + 1], req[k][2] - form[k][2])

\* Every site with a known tag carries the exponents of its tag.
AllCarryTags == \A k \in 1..L : form[k] # None => CarriesTag(k)

\* C16 (the state left behind): when convert_form fails at site k, the first
\* site of form None for which a concrete form is requested, the sites before
\* k hold the converted tensor under the new tag, the sites from k on keep
\* tensor and tag, and no spectrum has changed.
C16_PartialConversion ==
    [][(ret = NoCall /\ ret'.op = "convert_form" /\ ret'.forms # <<>>) =>
        \A k \in 1..L :
            (/\ UnknownToConcrete(k, ret'.forms)
             /\ \A j \in 1..(k - 1) : ~UnknownToConcrete(j, ret'.forms)
             /\ \A j \in 1..(k - 1) : Convertible(j, ret'.forms)) =>
                /\ ret'.err = "ValueError"
                /\ S' = S
                /\ \A j \in k..L : form'[j] = form[j] /\ B'[j] = B[j]
                /\ \A j \in 1..(k - 1) :
                      /\ form'[j] = ret'.forms[j]
                      /\ IF ret'.forms[j] = None \/ form[j] = ret'.forms[j]
                         THEN B'[j] = B[j]
                         ELSE /\ B'[j].legs["vL"] =
                                    AddExp(B[j].legs["vL"], S[j], ret'.forms[j][1] - form[j][1])
                              /\ B'[j].legs["vR"] =
                                    AddExp(B[j].legs["vR"], S[j + 1], ret'.forms[j][2] - form[j][2])
                              /\ B'[j].G = B[j].G /\ B'[j].legs["p"] = B[j].legs["p"]]_vars

\* C16 (the tags stay true): if every site with a known tag carried the
\* exponents of its tag before convert_form, so it does after, whether the
\* call fails or returns.
C16_TagsStayTrue ==
    [][(ret = NoCall /\ ret'.op = "convert_form" /\ AllCarryTags) => AllCarryTags']_vars

C16_NotAtomic == C16_PartialConversion /\ C16_TagsStayTrue

\* convert_form('A') failed at the second site, of form None, after it had
\* converted the first site from B to A.
C16_Witness ==
    /\ ret.op = "convert_form" /\ ret.err = "ValueError" /\ L = 2
    /\ ret.forms = <<valid_forms("A"), valid_forms("A")>>
    /\ form = <<valid_forms("A"), None>>
    /\ B[1].id # 1 /\ CarriesTag(1) /\ B[2].id = 2

\* The result of the last call shares its data buffer with a stored tensor.
SharesStoredData == \E k \in 1..L : ret.val.id = B[k].id

\* C17 (the data returned): the tensor get_theta returns never shares its
\* data with a stored tensor, for every stored form, n >= 1, formL and formR.
C17_AlwaysCopied == (ret.op = "get_theta" /\ ret.err = "") => ~SharesStoredData

\* C17 (the frame): get_theta changes no stored tensor, spectrum or form tag.
C17_ReadOnly ==
    [][(ret = NoCall /\ ret'.op = "get_theta") =>
          (B' = B /\ S' = S /\ form' = form /\ bc' = bc /\ sites' = sites)]_vars

C17_NoStoredDataAsStated == []C17_AlwaysCopied /\ C17_ReadOnly

\* What get_theta does: its result shares the data of a stored tensor
\* exactly when n = 1, the stored form is not (0, 0) and formL, formR are
\* the exponents of the stored form, so that neither rescale does anything.
GetThetaSharesOnNoRescale ==
    (ret.op = "get_theta" /\ ret.err = "") =>
        (SharesStoredData <=>
            /\ ret.n = 1
            /\ form[FirstSite] # <<0, 0>>
            /\ ret.fL = form[FirstSite][1] /\ ret.fR = form[FirstSite][2])

\* get_theta(i, n=1, formL=0, formR=1) on a site stored in form B returned
\* the data of the stored tensor.
GetThetaSharedData ==
    /\ ret.op = "get_theta" /\ ret.err = "" /\ ret.n = 1 /\ ret.fL = 0 /\ ret.fR = 2
    /\ form[FirstSite] = valid_forms("B") /\ ret.val.id = B[FirstSite].id

====
